---- MODULE Spec2Model ----
(***************************************************************************)
(* Model of the changelog generator (src/main.go, lines 1-271): tag        *)
(* resolution (collectTags), the effective revision cutoff, and the        *)
(* producer/renderer pipeline of writeChangelog with its bounded commit    *)
(* channel and its unbuffered result channel.                              *)
(***************************************************************************)
EXTENDS Integers, Sequences, FiniteSets, TLC

\* ------------------------------------------------------------------ bounds
\* Longest "short" history (commits walked), in commits.
MaxLen == 3
\* Histories longer than the channel: ChanCap+1 .. ChanCap+MaxOver commits.
MaxOver == 1
\* Most tag references in a short repository.
MaxRefs == 2

\* ------------------------------------------------------- program constants
\* make(chan DecoratedCommit, 32)
ChanCap == 32

\* error values (Go error identities); nil is the absence of an error
nil == "nil"
ErrClone == "ErrClone"
ErrRefIter == "ErrRefIter"
ErrTagLookup == "ErrTagLookup"
ErrCommitLookup == "ErrCommitLookup"
ErrLog == "ErrLog"
ErrWalk == "ErrWalk"
ErrRender == "ErrRender"
ErrAtoi == "ErrAtoi"

\* ------------------------------------------------------------ pure helpers
\* strings.TrimPrefix
TrimPrefix(s, prefix) ==
    IF Len(s) >= Len(prefix) /\ SubSeq(s, 1, Len(prefix)) = prefix
    THEN SubSeq(s, Len(prefix) + 1, Len(s))
    ELSE s

\* the namespace every tag reference name starts with: "refs/tags/"
TagPrefix == "refs/tags/"

\* plumbing.NewTagReferenceName(tag)
NewTagReferenceName(t) == TagPrefix \o t

Digits == {"0", "1", "2", "3", "4", "5", "6", "7", "8", "9"}

DigitVal(c) ==
    CASE c = "0" -> 0 [] c = "1" -> 1 [] c = "2" -> 2 [] c = "3" -> 3
      [] c = "4" -> 4 [] c = "5" -> 5 [] c = "6" -> 6 [] c = "7" -> 7
      [] c = "8" -> 8 [] c = "9" -> 9

RECURSIVE DecValue(_)
DecValue(s) ==
    IF s = "" THEN 0
    ELSE 10 * DecValue(SubSeq(s, 1, Len(s) - 1)) + DigitVal(SubSeq(s, Len(s), Len(s)))

\* strconv.Atoi: optional sign, then one or more decimal digits
Atoi(s) ==
    LET signed == s # "" /\ Head(s) \in {"-", "+"}
        body == IF signed THEN Tail(s) ELSE s
    IN IF body = "" \/ \E i \in 1..Len(body) : SubSeq(body, i, i) \notin Digits
       THEN [val |-> 0, err |-> ErrAtoi]
       ELSE [val |-> IF Head(s) = "-" THEN 0 - DecValue(body) ELSE DecValue(body),
             err |-> nil]

\* the maxRevs part of parseRequest (and the -max-revs flag, default 0):
\* an absent value leaves maxRevs at 0
ParseMaxRevs(str) ==
    IF str # "" THEN Atoi(str) ELSE [val |-> 0, err |-> nil]

HexDigit(n) ==
    CASE n < 10 -> <<"0", "1", "2", "3", "4", "5", "6", "7", "8", "9">>[n + 1]
      [] OTHER -> <<"a", "b", "c", "d", "e", "f">>[n - 9]

\* hex.EncodeToString of a one-byte commit hash
HexEncode(h) == HexDigit(h \div 16) \o HexDigit(h % 16)

\* ------------------------------------------------------------- tag kinds
\* light     : no tag object for ref.Hash() (ErrObjectNotFound); the
\*             reference points directly at a commit
\* annot     : annotated tag whose target is a commit
\* nonCommit : annotated tag whose target is a tree, blob or tag
\*             (tag.Commit() returns ErrUnsupportedObject)
\* missing   : annotated tag of a commit that cannot be loaded
\*             (tag.Commit() returns another error and a nil commit)
\* lookupErr : repo.TagObject fails with an error other than not-found
RefKinds == {"light", "annot", "nonCommit", "missing", "lookupErr"}

\* the map type map[plumbing.Hash][]string: a function on the set of keys
EmptyMap == [h \in {} |-> <<>>]

MapPut(m, k, v) == [h \in (DOMAIN m) \cup {k} |-> IF h = k THEN v ELSE m[h]]

\* tagsByCommit[commitHash] of a missing key is the nil slice
MapGet(m, k) == IF k \in DOMAIN m THEN m[k] ELSE <<>>

\* --------------------------------------------------------------- collectTags
\* faulty variant of AppendTag: the entry is overwritten instead of appended to
AppendTagOverwrite(index, commitHash, name) ==
    MapPut(index, commitHash, <<name>>)

\* lines 92-94: append the name to the entry of the commit
AppendTag(index, commitHash, name) ==
    MapPut(index, commitHash, Append(MapGet(index, commitHash), name))

\* faulty variant of Resolve: every error of tag.Commit() is returned, the
\* "not a commit" one too
ResolveStrict(ref) ==
    CASE ref.kind = "annot" -> [do |-> "add", hash |-> ref.target, err |-> nil]
      [] ref.kind = "nonCommit" -> [do |-> "err", hash |-> 0, err |-> ErrCommitLookup]
      [] ref.kind = "missing" -> [do |-> "err", hash |-> 0, err |-> ErrCommitLookup]
      [] ref.kind = "light" -> [do |-> "add", hash |-> ref.target, err |-> nil]
      [] OTHER -> [do |-> "err", hash |-> 0, err |-> ErrTagLookup]

\* lines 76-91: what the switch on the error of repo.TagObject does with a
\* reference: add its name under a commit hash, skip it, return an error,
\* or dereference the nil commit that tag.Commit() returned with its error
Resolve(ref) ==
    CASE ref.kind = "annot" -> [do |-> "add", hash |-> ref.target, err |-> nil]
      [] ref.kind = "nonCommit" -> [do |-> "skip", hash |-> 0, err |-> nil]
      [] ref.kind = "missing" -> [do |-> "panic", hash |-> 0, err |-> ErrCommitLookup]
      [] ref.kind = "light" -> [do |-> "add", hash |-> ref.target, err |-> nil]
      [] OTHER -> [do |-> "err", hash |-> 0, err |-> ErrTagLookup]

\* One pass of the for-loop of collectTags over the references rs, from
\* position i with the index built so far; failAt is the position at which
\* refIter.Next() returns an error other than io.EOF (0: never).
RECURSIVE CollectLoop(_, _, _, _)
CollectLoop(rs, failAt, i, tagsByCommit) ==
    IF i = failAt THEN [status |-> "err", err |-> ErrRefIter, index |-> EmptyMap]
    ELSE IF i > Len(rs) THEN [status |-> "ok", err |-> nil, index |-> tagsByCommit]
    ELSE
      LET ref == rs[i]
          r == Resolve(ref)
          cleanTagName == TrimPrefix(ref.name, TagPrefix)
      IN CASE r.do = "add" ->
                  CollectLoop(rs, failAt, i + 1,
                              AppendTag(tagsByCommit, r.hash, cleanTagName))
           [] r.do = "skip" ->
                  CollectLoop(rs, failAt, i + 1, tagsByCommit)
           [] r.do = "panic" ->
                  [status |-> "panic", err |-> nil, index |-> EmptyMap]
           [] OTHER ->
                  [status |-> "err", err |-> r.err, index |-> EmptyMap]

collectTags(rs, failAt) == CollectLoop(rs, failAt, 1, EmptyMap)

\* ------------------------------------------------------------- repositories
TagNames == <<"v1.0", "v2.0", "v3.0", "v4.0">>

\* the i-th tag reference of a repository: refs/tags/<name>
MkRef(i, c) == [name |-> TagPrefix \o TagNames[i], kind |-> c.kind, target |-> c.target]

\* what a reference can be in a history of commits 1..n (hash 0: no commit)
RefChoices(n) ==
    [kind : {"light", "annot"}, target : 1..n]
      \cup [kind : {"nonCommit", "missing", "lookupErr"}, target : {0}]

RefSeqs(choices, maxRefs) ==
    UNION {{[i \in 1..k |-> MkRef(i, f[i])] : f \in [1..k -> choices]} : k \in 0..maxRefs}

\* the walk of a history of n commits, newest first: commit hashes 1..n
Walk(n) == [i \in 1..n |-> i]

ShortRepos ==
    UNION {[walk : {Walk(n)}, refs : RefSeqs(RefChoices(n), MaxRefs)] : n \in 1..MaxLen}

\* histories that overfill the commit channel: untagged, or with a
\* lightweight tag on the newest and on the oldest commit
LongRefs(n) ==
    {<<>>,
     <<MkRef(1, [kind |-> "light", target |-> 1]),
       MkRef(2, [kind |-> "light", target |-> n])>>}

LongRepos ==
    UNION {[walk : {Walk(n)}, refs : LongRefs(n)]
              : n \in (ChanCap + 1)..(ChanCap + MaxOver)}

Repos == ShortRepos \cup LongRepos

\* the bare names of the references that resolve to commit h, in the order
\* the references are iterated (a direct scan of the references)
RECURSIVE NamesAt(_, _)
NamesAt(rs, h) ==
    IF rs = <<>> THEN <<>>
    ELSE LET r == rs[Len(rs)]
             before == NamesAt(SubSeq(rs, 1, Len(rs) - 1), h)
         IN IF r.kind \in {"light", "annot"} /\ r.target = h
            THEN Append(before, SubSeq(r.name, 11, Len(r.name)))
            ELSE before

\* the tag filters a clone can succeed with: none, or a tag whose reference
\* exists and resolves to the commit the walk starts at
TagFilters(repo) ==
    {""} \cup {t \in {TagNames[i] : i \in 1..Len(repo.refs)} :
                 \E i \in 1..Len(repo.refs) :
                    /\ repo.refs[i].name = NewTagReferenceName(t)
                    /\ repo.refs[i].kind \in {"light", "annot"}
                    /\ repo.refs[i].target = repo.walk[1]}

\* the texts of a caller-supplied maximum: absent, -1, 0, 1 or 2
MaxRevsStrs == {"", "-1", "0", "1", "2"}

\* -------------------------------------------------------------------- state
VARIABLES
    walk,              \* commits the history walker yields, in order (hashes)
    refs,              \* tag references, in the order repo.Tags() iterates
    tag,               \* the tag filter ("" : none)
    maxRevsStr,        \* the caller-supplied maximum, as text ("" : absent)
    pc,                \* where writeChangelog (the producer) is
    maxRevs,           \* the parameter / local maxRevs of writeChangelog
    tagsByCommit,      \* the index collectTags returned
    idx,               \* commits commitIter.Next() has yielded so far
    numTaggedCommits,  \* the cutoff counter
    decoratedCommit,   \* the commit the select is about to push
    Commits,           \* cl.Commits: the buffered channel's queue
    commitsClosed,     \* cl.Commits has been closed
    cpc,               \* where the renderer goroutine is
    rendErr,           \* what tmpl.Execute returned
    goErrClosed,       \* goErr has been closed
    ret,               \* what writeChangelog returned
    retAt,             \* the return statement it returned from
    pushed,            \* every commit sent on cl.Commits, in order
    received,          \* every commit the renderer took from cl.Commits
    closes,            \* how many times close(cl.Commits) ran
    sawEnd,            \* the renderer's range ended on the closed channel
    reqPath,           \* req.URL.Path of the request being served ("" : one-shot)
    parseErr,          \* the err parseRequest gave the handler
    resp,              \* what the requester got: "none" yet, "200", "aborted"
    served             \* requests whose handler has ended

vars == <<walk, refs, tag, maxRevsStr, pc, maxRevs, tagsByCommit, idx,
          numTaggedCommits, decoratedCommit, Commits, commitsClosed, cpc,
          rendErr, goErrClosed, ret, retAt, pushed, received, closes, sawEnd,
          reqPath, parseErr, resp, served>>

inputs == <<walk, refs, tag, maxRevsStr>>
chanVars == <<Commits, commitsClosed, pushed, received, closes, sawEnd>>
rendVars == <<cpc, rendErr, goErrClosed>>
walkVars == <<idx, numTaggedCommits, decoratedCommit>>
httpVars == <<reqPath, parseErr, resp, served>>

NoCommit == [Hash |-> 0, HashHexDigest |-> "", Tags |-> <<>>]

\* the state at the call, for a repository and a request out of the given sets
InitWith(repos) ==
    /\ \E repo \in repos :
         /\ walk = repo.walk
         /\ refs = repo.refs
         /\ tag \in TagFilters(repo)
    /\ maxRevsStr \in MaxRevsStrs
    /\ pc = "start"
    /\ maxRevs = 0
    /\ tagsByCommit = EmptyMap
    /\ idx = 0
    /\ numTaggedCommits = 0
    /\ decoratedCommit = NoCommit
    /\ Commits = <<>>
    /\ commitsClosed = FALSE
    /\ cpc = "idle"
    /\ rendErr = nil
    /\ goErrClosed = FALSE
    /\ ret = nil
    /\ retAt = "none"
    /\ pushed = <<>>
    /\ received = <<>>
    /\ closes = 0
    /\ sawEnd = FALSE
    /\ reqPath = ""
    /\ parseErr = nil
    /\ resp = "none"
    /\ served = 0

Init == InitWith(Repos)

\* --------------------------------------------------- writeChangelog: set-up
\* the caller reads the maximum (flag -max-revs, or parseRequest's maxRevs
\* query parameter) and calls writeChangelog with it
ParseArgs ==
    /\ pc = "start"
    /\ LET r == ParseMaxRevs(maxRevsStr)
       IN /\ maxRevs' = r.val
          /\ pc' = "clone"
    /\ UNCHANGED <<httpVars, inputs, tagsByCommit, walkVars, chanVars, rendVars, ret, retAt>>

\* faulty variant of EffectiveMaxRevs: a tag filter always sets the cutoff to 1
EffectiveMaxRevsAlwaysOne(t, m) == IF t = "" THEN m ELSE 1

\* faulty variant of EffectiveMaxRevs: the default for a tag filter is forgotten
EffectiveMaxRevsNoDefault(t, m) == m

\* faulty variant of EffectiveMaxRevs: every maximum that is not positive is
\* replaced by the default
EffectiveMaxRevsNonPositive(t, m) == IF t = "" THEN m ELSE IF m <= 0 THEN 1 ELSE m

\* lines 128-141: the cutoff writeChangelog goes on with
EffectiveMaxRevs(t, m) == IF t = "" THEN m ELSE IF m = 0 THEN 1 ELSE m

\* lines 122-144: default the cutoff, clone; a failed clone is returned
Clone ==
    /\ pc = "clone"
    /\ maxRevs' = EffectiveMaxRevs(tag, maxRevs)
    /\ \E cloneErr \in {nil, ErrClone} :
         IF cloneErr # nil
         THEN pc' = "returned" /\ ret' = cloneErr /\ retAt' = "clone"
         ELSE pc' = "collectTags" /\ UNCHANGED <<ret, retAt>>
    /\ UNCHANGED <<httpVars, inputs, tagsByCommit, walkVars, chanVars, rendVars>>

\* lines 146-149: build the tag index, return its error
CollectTags ==
    /\ pc = "collectTags"
    /\ \E failAt \in 0..(Len(refs) + 1) :
         LET r == collectTags(refs, failAt)
         IN CASE r.status = "ok" ->
                   /\ tagsByCommit' = r.index
                   /\ pc' = "log"
                   /\ UNCHANGED <<ret, retAt>>
              [] r.status = "err" ->
                   /\ tagsByCommit' = tagsByCommit
                   /\ pc' = "returned"
                   /\ ret' = r.err
                   /\ retAt' = "tags"
              [] OTHER ->
                   /\ tagsByCommit' = tagsByCommit
                   /\ pc' = "panicked"
                   /\ retAt' = "panic85"
                   /\ ret' = ret
    /\ UNCHANGED <<httpVars, inputs, maxRevs, walkVars, chanVars, rendVars>>

\* lines 151-166: start the walk, make the channels, start the renderer.
\* When repo.Log fails, commitIter is a nil interface and the deferred
\* commitIter.Close() cannot be evaluated: the goroutine panics.
LogAndSpawn ==
    /\ pc = "log"
    /\ \E logOk \in BOOLEAN :
         IF logOk
         THEN /\ pc' = "next"
              /\ retAt' = retAt
              /\ cpc' = "range"
              /\ numTaggedCommits' = 0
         ELSE /\ pc' = "panicked"
              /\ retAt' = "panic152"
              /\ cpc' = cpc
              /\ numTaggedCommits' = numTaggedCommits
    /\ UNCHANGED <<httpVars, inputs, maxRevs, tagsByCommit, idx, decoratedCommit, chanVars,
                   rendErr, goErrClosed, ret>>

\* ------------------------------------------------- writeChangelog: the loop
\* lines 177-182: the commit with its display hash and its tags
Decorate(commitHash, index) ==
    [Hash |-> commitHash,
     HashHexDigest |-> HexEncode(commitHash),
     Tags |-> MapGet(index, commitHash)]

\* line 177: hasTags, the comma-ok of the map lookup
HasTags(commitHash, index) == commitHash \in DOMAIN index

\* faulty variant of CountTagged: the counter counts tag names
CountTaggedNames(numTagged, commitTags, hasTags) == numTagged + Len(commitTags)

\* lines 183-185: the counter after a commit with the tags commitTags
CountTagged(numTagged, commitTags, hasTags) ==
    IF hasTags THEN numTagged + 1 ELSE numTagged

\* faulty variant of CutoffReached: off by one, stops at the max-th tagged commit
CutoffReachedOffByOne(max, numTagged) == max > 0 /\ numTagged >= max

\* faulty variant of CutoffReached: the test for "unlimited" is missing
CutoffReachedNoZero(max, numTagged) == numTagged > max

\* line 186: the cutoff test, on the counter after its increment
CutoffReached(max, numTagged) == max > 0 /\ numTagged > max

\* faulty variant of WalkNext: a bare return, which yields the function's
\* own err (nil) and not the err the loop declares
WalkNextNakedReturn ==
    /\ pc = "next"
    /\ \E err \in {nil, ErrWalk} :
         IF err # nil
         THEN /\ pc' = "returned"
              /\ ret' = nil
              /\ retAt' = "walk"
              /\ UNCHANGED walkVars
         ELSE IF idx = Len(walk)
         THEN /\ pc' = "close"
              /\ UNCHANGED <<ret, retAt, walkVars>>
         ELSE LET commit == walk[idx + 1]
                  n == CountTagged(numTaggedCommits, MapGet(tagsByCommit, commit),
                                   HasTags(commit, tagsByCommit))
              IN /\ idx' = idx + 1
                 /\ numTaggedCommits' = n
                 /\ decoratedCommit' = Decorate(commit, tagsByCommit)
                 /\ pc' = IF CutoffReached(maxRevs, n) THEN "close" ELSE "select"
                 /\ UNCHANGED <<ret, retAt>>
    /\ UNCHANGED <<httpVars, inputs, maxRevs, tagsByCommit, chanVars, rendVars>>

\* lines 170-188: take the next commit; io.EOF and the cutoff leave the loop,
\* any other error is returned at once
WalkNext ==
    /\ pc = "next"
    /\ \E err \in {nil, ErrWalk} :
         IF err # nil
         THEN /\ pc' = "returned"
              /\ ret' = err
              /\ retAt' = "walk"
              /\ UNCHANGED walkVars
         ELSE IF idx = Len(walk)
         THEN /\ pc' = "close"
              /\ UNCHANGED <<ret, retAt, walkVars>>
         ELSE LET commit == walk[idx + 1]
                  n == CountTagged(numTaggedCommits, MapGet(tagsByCommit, commit),
                                   HasTags(commit, tagsByCommit))
              IN /\ idx' = idx + 1
                 /\ numTaggedCommits' = n
                 /\ decoratedCommit' = Decorate(commit, tagsByCommit)
                 /\ pc' = IF CutoffReached(maxRevs, n) THEN "close" ELSE "select"
                 /\ UNCHANGED <<ret, retAt>>
    /\ UNCHANGED <<httpVars, inputs, maxRevs, tagsByCommit, chanVars, rendVars>>

\* faulty variant of SelectSend: a queue without a capacity
SelectSendNoLimit ==
    /\ pc = "select"
    /\ IF commitsClosed
       THEN \* send on a closed channel
            /\ pc' = "panicked"
            /\ UNCHANGED <<Commits, pushed>>
       ELSE /\ Commits' = Append(Commits, decoratedCommit)
            /\ pushed' = Append(pushed, decoratedCommit)
            /\ pc' = "next"
    /\ UNCHANGED <<httpVars, inputs, maxRevs, tagsByCommit, walkVars, commitsClosed,
                   received, closes, sawEnd, rendVars, ret, retAt>>

\* line 190: the send case of the select; it can run while the queue has room
SelectSend ==
    /\ pc = "select"
    /\ Len(Commits) < ChanCap
    /\ IF commitsClosed
       THEN \* send on a closed channel
            /\ pc' = "panicked"
            /\ UNCHANGED <<Commits, pushed>>
       ELSE /\ Commits' = Append(Commits, decoratedCommit)
            /\ pushed' = Append(pushed, decoratedCommit)
            /\ pc' = "next"
    /\ UNCHANGED <<httpVars, inputs, maxRevs, tagsByCommit, walkVars, commitsClosed,
                   received, closes, sawEnd, rendVars, ret, retAt>>

\* a receive from goErr can run when the renderer is blocked in its send
\* (the channel is unbuffered) or when goErr is closed
GoErrReady == cpc = "send" \/ goErrClosed

\* the value a receive from goErr yields: the renderer's result, or the zero
\* value of a closed channel
GoErrValue == IF cpc = "send" THEN rendErr ELSE nil

\* faulty variant of SelectRecv: a plain send instead of the select, so the result
\* of the renderer is not received while pushing
SelectRecvMissing ==
    /\ pc = "select"
    /\ FALSE
    /\ UNCHANGED vars

\* lines 191-194: the receive case of the select returns what it received
SelectRecv ==
    /\ pc = "select"
    /\ GoErrReady
    /\ ret' = GoErrValue
    /\ retAt' = "select"
    /\ cpc' = IF cpc = "send" THEN "closeGoErr" ELSE cpc
    /\ pc' = "returned"
    /\ UNCHANGED <<httpVars, inputs, maxRevs, tagsByCommit, walkVars, chanVars, rendErr,
                   goErrClosed>>

\* faulty variant of CloseCommits: the channel is left open
CloseCommitsForgotten ==
    /\ pc = "close"
    /\ pc' = "recv"
    /\ UNCHANGED <<httpVars, inputs, maxRevs, tagsByCommit, walkVars, chanVars, rendVars,
                   ret, retAt>>

\* line 197: close(cl.Commits)
CloseCommits ==
    /\ pc = "close"
    /\ IF commitsClosed
       THEN \* close of a closed channel
            pc' = "panicked" /\ UNCHANGED <<commitsClosed, closes>>
       ELSE /\ commitsClosed' = TRUE
            /\ closes' = closes + 1
            /\ pc' = "recv"
    /\ UNCHANGED <<httpVars, inputs, maxRevs, tagsByCommit, walkVars, Commits, pushed,
                   received, sawEnd, rendVars, ret, retAt>>

\* faulty variant of FinalRecv: the result of the renderer is awaited and dropped
FinalRecvDropsResult ==
    /\ pc = "recv"
    /\ GoErrReady
    /\ ret' = nil
    /\ retAt' = "final"
    /\ cpc' = IF cpc = "send" THEN "closeGoErr" ELSE cpc
    /\ pc' = "returned"
    /\ UNCHANGED <<httpVars, inputs, maxRevs, tagsByCommit, walkVars, chanVars, rendErr,
                   goErrClosed>>

\* line 198: return <-goErr
FinalRecv ==
    /\ pc = "recv"
    /\ GoErrReady
    /\ ret' = GoErrValue
    /\ retAt' = "final"
    /\ cpc' = IF cpc = "send" THEN "closeGoErr" ELSE cpc
    /\ pc' = "returned"
    /\ UNCHANGED <<httpVars, inputs, maxRevs, tagsByCommit, walkVars, chanVars, rendErr,
                   goErrClosed>>

\* ------------------------------------------------ the renderer (lines 163-166)
\* faulty variant of RendRead: the newest queued commit is taken first
RendReadNewest ==
    /\ cpc = "range"
    /\ Commits # <<>>
    /\ received' = Append(received, Commits[Len(Commits)])
    /\ Commits' = SubSeq(Commits, 1, Len(Commits) - 1)
    /\ UNCHANGED <<httpVars, inputs, pc, maxRevs, tagsByCommit, walkVars, commitsClosed,
                   pushed, closes, sawEnd, rendVars, ret, retAt>>

\* tmpl.Execute ranges over cl.Commits: it takes the oldest queued commit
RendRead ==
    /\ cpc = "range"
    /\ Commits # <<>>
    /\ received' = Append(received, Head(Commits))
    /\ Commits' = Tail(Commits)
    /\ UNCHANGED <<httpVars, inputs, pc, maxRevs, tagsByCommit, walkVars, commitsClosed,
                   pushed, closes, sawEnd, rendVars, ret, retAt>>

\* the range ends when the channel is closed and empty; Execute returns
RendEnd ==
    /\ cpc = "range"
    /\ Commits = <<>>
    /\ commitsClosed
    /\ sawEnd' = TRUE
    /\ \E e \in {nil, ErrRender} : rendErr' = e
    /\ cpc' = "send"
    /\ UNCHANGED <<httpVars, inputs, pc, maxRevs, tagsByCommit, walkVars, Commits,
                   commitsClosed, pushed, received, closes, goErrClosed, ret, retAt>>

\* Execute returns before the range has ended (a write fails, or the
\* template stops reading), with an error or without
RendEarly ==
    /\ cpc = "range"
    /\ \E e \in {nil, ErrRender} : rendErr' = e
    /\ cpc' = "send"
    /\ UNCHANGED <<httpVars, inputs, pc, maxRevs, tagsByCommit, walkVars, chanVars,
                   goErrClosed, ret, retAt>>

\* line 165: close(goErr), once the send of line 164 was received
RendCloseGoErr ==
    /\ cpc = "closeGoErr"
    /\ goErrClosed' = TRUE
    /\ cpc' = "done"
    /\ UNCHANGED <<httpVars, inputs, pc, maxRevs, tagsByCommit, walkVars, chanVars,
                   rendErr, ret, retAt>>

Producer ==
    \/ ParseArgs
    \/ Clone
    \/ CollectTags
    \/ LogAndSpawn
    \/ WalkNext
    \/ SelectSend
    \/ SelectRecv
    \/ CloseCommits
    \/ FinalRecv

Renderer ==
    \/ RendRead
    \/ RendEnd
    \/ RendEarly
    \/ RendCloseGoErr

Next == Producer \/ Renderer

Spec == Init /\ [][Next]_vars

\* The Go scheduler runs every goroutine that can run. The kind of a tag
\* reference is read by collectTags alone, before the renderer is started,
\* so the fair runs are taken over the repositories with lightweight tags.
FairInit == InitWith({repo \in Repos : \A i \in 1..Len(repo.refs) : repo.refs[i].kind = "light"})

FairSpec == FairInit /\ [][Next]_vars /\ WF_vars(Producer) /\ WF_vars(Renderer)

\* ------------------------------------------------------ request-driven mode

\* requests one run of the service handles
MaxRequests == 2
\* the longest history and the most tag references of a served repository
ServeLen == 2
ServeRefs == 1

ErrInvalidRequest == "ErrInvalidRequest"

\* strings.HasPrefix
HasPrefix(s, prefix) == Len(s) >= Len(prefix) /\ SubSeq(s, 1, Len(prefix)) = prefix

\* strings.Split(s, sep) for a separator of one character
RECURSIVE Split(_, _)
Split(s, sep) ==
    LET at == {i \in 1..Len(s) : SubSeq(s, i, i) = sep}
    IN IF at = {} THEN <<s>>
       ELSE LET i == CHOOSE j \in at : \A k \in at : j <= k
            IN <<SubSeq(s, 1, i - 1)>> \o Split(SubSeq(s, i + 1, Len(s)), sep)

\* lines 99-111
cleanRepoPath(repoPath) ==
    IF HasPrefix(repoPath, "git://") THEN repoPath
    ELSE "git://" \o TrimPrefix(TrimPrefix(repoPath, "http://"), "https://")

\* lines 201-216: the four results of parseRequest for a URL path and the
\* text of its maxRevs query parameter
parseRequest(path, query) ==
    LET trimmed == TrimPrefix(path, "/")
        parts == Split(trimmed, "@")
    IN IF Len(parts) > 2
       THEN [repoPath |-> trimmed, tag |-> "", maxRevs |-> 0, err |-> ErrInvalidRequest]
       ELSE LET m == ParseMaxRevs(query)
            IN [repoPath |-> cleanRepoPath(IF Len(parts) = 2 THEN parts[1] ELSE trimmed),
                tag |-> IF Len(parts) = 2 THEN parts[2] ELSE "",
                maxRevs |-> m.val,
                err |-> m.err]

\* the repositories requests are made for
ServeRepos ==
    UNION {[walk : {Walk(n)}, refs : RefSeqs(RefChoices(n), ServeRefs)] : n \in 1..ServeLen}

\* the URL paths asking for a repository: the repository, the repository at a
\* tag a clone can succeed with, and a path with two "@"
RequestPaths(repo) ==
    {"/host/repo", "/https://host/repo", "/host/repo@v1.0@v2.0"}
        \cup {"/host/repo@" \o t : t \in TagFilters(repo) \ {""}}

\* the texts of the maxRevs query parameter
QueryMaxRevs == {"", "0", "2", "x"}

\* the service has accepted its first request
ServeInit ==
    /\ \E repo \in ServeRepos :
         /\ walk = repo.walk
         /\ refs = repo.refs
         /\ reqPath \in RequestPaths(repo)
    /\ maxRevsStr \in QueryMaxRevs
    /\ tag = ""
    /\ pc = "start"
    /\ maxRevs = 0
    /\ tagsByCommit = EmptyMap
    /\ idx = 0
    /\ numTaggedCommits = 0
    /\ decoratedCommit = NoCommit
    /\ Commits = <<>>
    /\ commitsClosed = FALSE
    /\ cpc = "idle"
    /\ rendErr = nil
    /\ goErrClosed = FALSE
    /\ ret = nil
    /\ retAt = "none"
    /\ pushed = <<>>
    /\ received = <<>>
    /\ closes = 0
    /\ sawEnd = FALSE
    /\ parseErr = nil
    /\ resp = "none"
    /\ served = 0

\* lines 257-261: the handler parses the request and returns on an error,
\* having written nothing; the server then completes the response
ParseRequest ==
    /\ pc = "start"
    /\ LET r == parseRequest(reqPath, maxRevsStr)
       IN /\ parseErr' = r.err
          /\ tag' = r.tag
          /\ maxRevs' = r.maxRevs
          /\ IF r.err # nil
             THEN pc' = "handled" /\ resp' = "200" /\ served' = served + 1
             ELSE pc' = "clone" /\ UNCHANGED <<resp, served>>
    /\ UNCHANGED <<walk, refs, maxRevsStr, reqPath, tagsByCommit, walkVars, chanVars,
                   rendVars, ret, retAt>>

\* lines 263-264: writeChangelog has returned; the handler drops its result
\* and returns, and the server completes the response
HandlerReturn ==
    /\ pc = "returned"
    /\ pc' = "handled"
    /\ resp' = "200"
    /\ served' = served + 1
    /\ UNCHANGED <<inputs, reqPath, parseErr, maxRevs, tagsByCommit, walkVars,
                   chanVars, rendVars, ret, retAt>>

\* writeChangelog panicked in the handler's goroutine: net/http recovers the
\* panic, logs it and drops the connection; the server keeps running
HandlerPanic ==
    /\ pc = "panicked"
    /\ pc' = "handled"
    /\ resp' = "aborted"
    /\ served' = served + 1
    /\ UNCHANGED <<inputs, reqPath, parseErr, maxRevs, tagsByCommit, walkVars,
                   chanVars, rendVars, ret, retAt>>

\* line 268: ListenAndServe accepts the next request and calls the handler;
\* the handler works on its own locals, channels and renderer goroutine
NextRequest ==
    /\ pc = "handled"
    /\ served < MaxRequests
    /\ \E repo \in ServeRepos :
         /\ walk' = repo.walk
         /\ refs' = repo.refs
         /\ reqPath' \in RequestPaths(repo)
    /\ maxRevsStr' \in QueryMaxRevs
    /\ tag' = ""
    /\ pc' = "start"
    /\ maxRevs' = 0
    /\ tagsByCommit' = EmptyMap
    /\ idx' = 0
    /\ numTaggedCommits' = 0
    /\ decoratedCommit' = NoCommit
    /\ Commits' = <<>>
    /\ commitsClosed' = FALSE
    /\ cpc' = "idle"
    /\ rendErr' = nil
    /\ goErrClosed' = FALSE
    /\ ret' = nil
    /\ retAt' = "none"
    /\ pushed' = <<>>
    /\ received' = <<>>
    /\ closes' = 0
    /\ sawEnd' = FALSE
    /\ parseErr' = nil
    /\ resp' = "none"
    /\ served' = served

Handler ==
    \/ ParseRequest
    \/ Clone
    \/ CollectTags
    \/ LogAndSpawn
    \/ WalkNext
    \/ SelectSend
    \/ SelectRecv
    \/ CloseCommits
    \/ FinalRecv
    \/ HandlerReturn
    \/ HandlerPanic

ServeNext == Handler \/ Renderer \/ NextRequest

ServeSpec == ServeInit /\ [][ServeNext]_vars

\* ---------------------------------------------------------------- properties

\* ========================================================== the properties
IsPrefix(a, b) == Len(a) <= Len(b) /\ a = SubSeq(b, 1, Len(a))

Hashes(q) == [i \in 1..Len(q) |-> q[i].Hash]

Returned == pc = "returned"

\* writeChangelog has started the renderer and has not returned yet
InPipeline == pc \in {"next", "select", "close", "recv"}

\* the tag index exists: collectTags returned without an error
IndexBuilt == pc \in {"log", "next", "select", "close", "recv"} \/ retAt \in {"walk", "select", "final"}

\* the renderer has returned from Execute
RendReturned == cpc \in {"send", "closeGoErr", "done"}

\* commit h is tagged, by a direct scan of the tag references
TaggedDirect(h) == NamesAt(refs, h) # <<>>

\* tagged commits among the first i walked
TaggedUpTo(i) == Cardinality({j \in 1..i : TaggedDirect(walk[j])})

\* the position of the (k+1)-th tagged commit of the walk, if there is one
NextBoundary(k) == {i \in 1..Len(walk) : TaggedDirect(walk[i]) /\ TaggedUpTo(i) = k + 1}

\* how many commits the cutoff k lets through: all of them for k <= 0,
\* else those before the (k+1)-th tagged commit
CutLen(k) ==
    IF k <= 0 \/ NextBoundary(k) = {} THEN Len(walk)
    ELSE (CHOOSE i \in NextBoundary(k) : TRUE) - 1

\* the decorated commit expected for hash h, from the references themselves
ExpectedCommit(h) ==
    [Hash |-> h, HashHexDigest |-> HexEncode(h), Tags |-> NamesAt(refs, h)]

\* the sequence a draining renderer is to be given under cutoff k
ExpectedDelivery(k) == [i \in 1..CutLen(k) |-> ExpectedCommit(walk[i])]

\* the commits the walker has yielded so far, decorated, in walk order
Yielded == [i \in 1..idx |-> Decorate(walk[i], tagsByCommit)]

\* -------------------------------------------------------------------- C1
\* C1: under fair scheduling, once writeChangelog has started the renderer
\* it eventually returns, whatever the history, the cutoff and the renderer
\* do: the producer is never blocked forever on a push, not even with 32
\* commits queued and a renderer that failed and stopped reading.
C1_ProducerReturns == InPipeline ~> Returned

\* the 33rd commit was waiting on a full queue, the renderer had failed
\* without reading, and writeChangelog returned from the select
C1_Witness ==
    /\ Returned
    /\ retAt = "select"
    /\ Len(Commits) = ChanCap
    /\ received = <<>>
    /\ idx = ChanCap + 1
    /\ ret = ErrRender

\* -------------------------------------------------------------------- C2
\* C2: if the renderer returned an error after taking fewer commits than
\* the walk and the cutoff let through, and the walk raised no error, then
\* writeChangelog returns exactly that error, from the select or from the
\* final receive.
C2_RendererErrorReturned ==
    (/\ Returned
     /\ retAt \in {"select", "final"}
     /\ RendReturned
     /\ rendErr = ErrRender
     /\ Len(received) < CutLen(maxRevs))
        => ret = ErrRender

\* the error was seen by the final receive, after the producer had pushed
\* every commit and the renderer had taken only some of them
C2_Witness ==
    /\ Returned
    /\ retAt = "final"
    /\ rendErr = ErrRender
    /\ ret = ErrRender
    /\ Len(received) >= 1
    /\ Len(received) < Len(pushed)
    /\ Len(pushed) = CutLen(maxRevs)

\* -------------------------------------------------------------------- C3
\* C3: if the renderer returns without an error before the sequence has
\* ended, while commits remain to be taken, writeChangelog returns an error.
C3_EarlySuccessIsError ==
    (/\ Returned
     /\ retAt \in {"select", "final"}
     /\ RendReturned
     /\ ~sawEnd
     /\ rendErr = nil
     /\ Len(received) < CutLen(maxRevs))
        => ret # nil

\* -------------------------------------------------------------------- C4
\* C4: with an effective cutoff K > 0, nothing is ever pushed beyond the
\* commit before the (K+1)-th tagged commit, and a renderer that drains the
\* channel is given exactly that prefix of the walk (all of it when fewer
\* than K+1 commits are tagged): at most K tagged commits, the K-th among
\* them; stopping there is not an error, the result is the renderer's.
C4_CutoffPrefix ==
    (IndexBuilt /\ maxRevs > 0) =>
        /\ IsPrefix(pushed, ExpectedDelivery(maxRevs))
        /\ (Returned /\ sawEnd) =>
              /\ received = ExpectedDelivery(maxRevs)
              /\ Cardinality({i \in 1..Len(received) : received[i].Tags # <<>>})
                    = IF TaggedUpTo(Len(walk)) < maxRevs
                      THEN TaggedUpTo(Len(walk)) ELSE maxRevs
              /\ ret = rendErr

\* a drained run that the cutoff 1 ended before the second tagged commit
C4_Witness ==
    /\ Returned
    /\ sawEnd
    /\ maxRevs = 1
    /\ ret = nil
    /\ NextBoundary(1) # {}
    /\ Len(received) = 2
    /\ received[1].Tags # <<>>
    /\ received[2].Tags = <<>>
    /\ Len(walk) = 3

\* -------------------------------------------------------------------- C5
\* the history of C5: three commits, the newest tagged "v1.0", walked with
\* the tag filter "v1.0" and no maximum given
C5_Scenario ==
    /\ Len(walk) = 3
    /\ Len(refs) = 1
    /\ refs[1].name = "refs/tags/v1.0"
    /\ refs[1].kind \in {"light", "annot"}
    /\ refs[1].target = walk[1]
    /\ tag = "v1.0"
    /\ maxRevsStr = ""

\* C5 as stated: the effective cutoff is 1 and a draining renderer is given
\* the tagged commit C3 only.
C5_OnlyTaggedCommit ==
    (C5_Scenario /\ Returned /\ sawEnd) =>
        /\ maxRevs = 1
        /\ Hashes(received) = <<walk[1]>>

\* C5 (amended): the effective cutoff is 1 and a draining renderer is given
\* C3, C2 and C1 in this order, C3 with the tag "v1.0": the producer stops
\* only before a second tagged commit, and there is none.
C5_WholeRelease ==
    (C5_Scenario /\ Returned /\ sawEnd) =>
        /\ maxRevs = 1
        /\ Hashes(received) = walk
        /\ received[1].Tags = <<"v1.0">>
        /\ received[2].Tags = <<>>
        /\ received[3].Tags = <<>>

C5_Witness == C5_Scenario /\ Returned /\ sawEnd /\ ret = nil /\ Len(received) = 3

\* -------------------------------------------------------------------- C6
\* the number the caller supplied (0 when none was given)
SuppliedMax ==
    CASE maxRevsStr = "" -> 0
      [] maxRevsStr = "-1" -> 0 - 1
      [] maxRevsStr = "0" -> 0
      [] maxRevsStr = "1" -> 1
      [] maxRevsStr = "2" -> 2

\* the cutoff has been settled (line 141 has been passed)
CutoffSettled == pc \notin {"start", "clone"}

\* C6 as stated: the cutoff is 1 when a tag filter is given and no maximum
\* was supplied; in every other case it is the supplied maximum.
C6_DefaultOnlyWhenAbsent ==
    CutoffSettled =>
        maxRevs = IF tag # "" /\ maxRevsStr = "" THEN 1 ELSE SuppliedMax

\* C6 (amended): the cutoff is 1 when a tag filter is given and the supplied
\* maximum is 0, absent or given as 0; in every other case it is the
\* supplied maximum.
C6_DefaultWhenZero ==
    CutoffSettled =>
        maxRevs = IF tag # "" /\ SuppliedMax = 0 THEN 1 ELSE SuppliedMax

\* a tag filter with the maximum 2 given: the cutoff in use is 2
C6_Witness ==
    /\ CutoffSettled
    /\ tag # ""
    /\ maxRevsStr = "2"
    /\ maxRevs = 2
    /\ Returned
    /\ sawEnd

\* -------------------------------------------------------------------- C7
\* C7: with the cutoff 0 the producer never stops at a tagged commit: a
\* renderer that drains the channel is given all the walked commits, in
\* order, however many of them are tagged.
C7_UnlimitedDeliversAll ==
    (IndexBuilt /\ maxRevs = 0) =>
        /\ (pc = "close") => idx = Len(walk)
        /\ (Returned /\ sawEnd) => received = ExpectedDelivery(0)

\* more commits than the channel holds, two of them tagged, all delivered
C7_Witness ==
    /\ Returned
    /\ sawEnd
    /\ maxRevs = 0
    /\ Len(received) = Len(walk)
    /\ Len(walk) > ChanCap
    /\ numTaggedCommits = 2

\* -------------------------------------------------------------------- C8
\* C8: what the renderer has received is always a prefix of what the walker
\* has yielded, in the same order.
C8_ReceivedPrefixOfYielded == IsPrefix(received, Yielded)

\* the renderer is behind the walker, with commits taken and commits queued
C8_Witness ==
    /\ Len(received) = 2
    /\ Len(Commits) >= 2
    /\ idx > Len(received) + Len(Commits)

\* -------------------------------------------------------------------- C9
\* the state part of C9
C9_State ==
    /\ (pc = "recv" \/ (Returned /\ retAt = "final")) =>
          commitsClosed /\ closes = 1
    /\ pc \in {"next", "select", "close"} => ~commitsClosed /\ closes = 0
    /\ (Returned /\ retAt = "final") => RendReturned /\ ret = rendErr
    /\ sawEnd => commitsClosed /\ received = pushed

\* the step part of C9
C9_Step ==
    /\ commitsClosed => pushed' = pushed /\ commitsClosed'
    /\ pc = "recv" => pc' = "recv" \/ (pc' = "returned" /\ ret' = rendErr)

\* C9: leaving the loop at the end of history or at the cutoff, the producer
\* closes the commit channel, once and after its last push, then waits for
\* the renderer's result and returns exactly it; the renderer sees the end
\* of the sequence only when it has taken every pushed commit.
C9_CloseThenReturn == [](C9_State) /\ [][C9_Step]_vars

\* the cutoff ended the loop, the renderer drained the channel and failed
C9_Witness ==
    /\ Returned
    /\ retAt = "final"
    /\ sawEnd
    /\ idx < Len(walk)
    /\ Len(pushed) >= 1
    /\ ret = ErrRender

\* ------------------------------------------------------------------- C10
\* every tag reference resolves to a commit
AllResolve == \A i \in 1..Len(refs) : refs[i].kind \in {"light", "annot"}

Count(q, x) == Cardinality({i \in 1..Len(q) : q[i] = x})

\* C10: when every tag resolves, each commit is decorated with exactly the
\* bare names of the references pointing at it, in iteration order; the
\* name of a lightweight tag is once in the list of its commit; without
\* tags the index is empty and no commit has a tag.
C10_TagsMatchReferences ==
    (IndexBuilt /\ AllResolve) =>
        /\ \A i \in 1..Len(walk) :
              Decorate(walk[i], tagsByCommit).Tags = NamesAt(refs, walk[i])
        /\ \A i \in 1..Len(pushed) : pushed[i].Tags = NamesAt(refs, pushed[i].Hash)
        /\ \A i \in 1..Len(refs) :
              refs[i].kind = "light" =>
                  Count(MapGet(tagsByCommit, refs[i].target), TagNames[i]) = 1
        /\ \A h \in DOMAIN tagsByCommit : tagsByCommit[h] # <<>>
        /\ refs = <<>> =>
              /\ tagsByCommit = EmptyMap
              /\ \A i \in 1..Len(pushed) : pushed[i].Tags = <<>>

\* a lightweight and an annotated tag on the same commit, which was pushed
C10_Witness ==
    /\ IndexBuilt
    /\ Len(refs) = 2
    /\ refs[1].kind = "light"
    /\ refs[2].kind = "annot"
    /\ refs[1].target = refs[2].target
    /\ \E i \in 1..Len(pushed) :
          pushed[i].Hash = refs[1].target /\ pushed[i].Tags = <<"v1.0", "v2.0">>

\* ---------------------------------------------------------------- C11

\* the references without the annotated tags that do not point at a commit
RECURSIVE WithoutNonCommit(_)
WithoutNonCommit(rs) ==
    IF rs = <<>> THEN <<>>
    ELSE IF Head(rs).kind = "nonCommit" THEN WithoutNonCommit(Tail(rs))
    ELSE <<Head(rs)>> \o WithoutNonCommit(Tail(rs))

\* the names an index holds
NamesIn(index) ==
    UNION {{index[h][i] : i \in 1..Len(index[h])} : h \in DOMAIN index}

\* collectTags is past: writeChangelog is beyond line 149 or returned there
TagsDone == pc \notin {"start", "clone", "collectTags"} /\ retAt # "clone"

\* C11: an annotated tag that points at a non-commit object adds no entry
\* and no name, raises no error and does not stop the loop: collectTags gives
\* for the references what it gives for them without such tags, and the
\* index writeChangelog goes on with (line 151) is the one of the other tags
\* alone.
C11_NonCommitTagSkipped ==
    /\ pc = "collectTags" =>
          collectTags(refs, 0) = collectTags(WithoutNonCommit(refs), 0)
    /\ pc = "log" =>
          /\ tagsByCommit = collectTags(WithoutNonCommit(refs), 0).index
          /\ \A i \in 1..Len(refs) :
                refs[i].kind = "nonCommit" =>
                    TrimPrefix(refs[i].name, TagPrefix) \notin NamesIn(tagsByCommit)
    /\ (TagsDone /\ \A i \in 1..Len(refs) : refs[i].kind \in {"light", "annot", "nonCommit"}) =>
          /\ retAt # "panic85"
          /\ retAt = "tags" => ret = ErrRefIter

\* a tag on a tree comes first, a tag on a commit after it is in the index
\* and the commit was pushed with it
C11_Witness ==
    /\ IndexBuilt
    /\ Len(refs) = 2
    /\ refs[1].kind = "nonCommit"
    /\ refs[2].kind = "annot"
    /\ \E i \in 1..Len(pushed) :
          pushed[i].Hash = refs[2].target /\ pushed[i].Tags = <<"v2.0">>

\* ---------------------------------------------------------------- C12

\* the references whose resolution fails: the tag object cannot be read, or
\* the commit an annotated tag names cannot be read
Failing == {i \in 1..Len(refs) : refs[i].kind \in {"missing", "lookupErr"}}

FirstFailing == CHOOSE i \in Failing : \A j \in Failing : i <= j

\* C12: a resolution failure other than "not a commit" ends collectTags with
\* the error of the failing call and without an index: the iterator's error,
\* the error of TagObject, or the error of tag.Commit().
C12_FailureAborts ==
    /\ (TagsDone /\ Failing # {}) =>
          /\ pc = "returned"
          /\ retAt = "tags"
          /\ ret \in {ErrRefIter, Resolve(refs[FirstFailing]).err}
    /\ retAt = "tags" => ret # nil /\ tagsByCommit = EmptyMap

\* ---------------------------------------------------------------- C13

\* tag resolution did not give an index
TagsFailed == retAt \in {"tags", "panic85"}

\* C13: when tag resolution fails, writeChangelog returns that error and the
\* renderer was never started: nothing walked, pushed or received.
C13_FailsBeforeRenderer ==
    TagsFailed =>
        /\ pc = "returned"
        /\ ret \in {ErrRefIter, ErrTagLookup, ErrCommitLookup}
        /\ cpc = "idle"
        /\ idx = 0
        /\ pushed = <<>>
        /\ received = <<>>

\* ---------------------------------------------------------------- C14

\* C14: when the walker fails, writeChangelog returns the walker's error,
\* the commits yielded before were all pushed, in walk order, and nothing is
\* pushed afterwards: in every state after that return the pushed commits
\* are the ones yielded before the failure.
C14_WalkErrorReturned ==
    retAt = "walk" =>
        /\ pc = "returned"
        /\ ret = ErrWalk
        /\ pushed = Yielded
        /\ Hashes(pushed) = SubSeq(walk, 1, idx)

\* the walker failed at the third commit, after two pushes
C14_Witness == retAt = "walk" /\ Len(pushed) = 2 /\ Len(walk) > 2

\* ---------------------------------------------------------------- C15

\* the terminal error of the request whose handler has ended
RequestError == IF parseErr # nil THEN parseErr ELSE ret

\* a response that tells the requester the error
ErrorResponse(e) == "500 " \o e

\* C15: a request whose parsing or rendering ended in an error got that error
\* as its response; the service has not stopped and takes the next request.
C15_ErrorsReported ==
    pc = "handled" =>
        /\ RequestError # nil => resp = ErrorResponse(RequestError)
        /\ served < MaxRequests => ENABLED NextRequest

\* ---------------------------------------------------------------- C16

\* the stage whose error writeChangelog returned
StageAtReturn ==
    CASE retAt = "tags" -> "tag-resolution"
      [] retAt = "walk" -> "traversal"
      [] OTHER -> "renderer"

\* an error value that carries the name of a stage
WithStage(stage, e) == stage \o ": " \o e

\* C16: an error returned by tag resolution, the traversal or the renderer
\* carries the name of the stage that produced it.
C16_StageTagged ==
    (Returned /\ ret # nil /\ retAt \in {"tags", "walk", "select", "final"}) =>
        \E e \in {ErrRefIter, ErrTagLookup, ErrCommitLookup, ErrWalk, ErrRender} :
            ret = WithStage(StageAtReturn, e)

\* ---------------------------------------------------------------- C17

\* C17: once writeChangelog has returned, the renderer goroutine was never
\* started, has ended, or can still take a step: it is not blocked for good
\* on the open queue or on its send to goErr.
C17_RendererNotStuck ==
    Returned => (cpc \in {"idle", "done"} \/ ENABLED Renderer)

\* ---------------------------------------------------------------- C18

C18_State ==
    /\ Len(Commits) <= 32
    /\ closes <= 1
    /\ commitsClosed <=> closes = 1
    /\ goErrClosed => cpc = "done" /\ pc = "returned" /\ retAt \in {"select", "final"}

C18_Step ==
    /\ commitsClosed => pushed' = pushed /\ commitsClosed'
    /\ closes' >= closes
    /\ (cpc = "send" /\ cpc' # "send") =>
           cpc' = "closeGoErr" /\ pc' = "returned" /\ ret' = rendErr
    /\ cpc \in {"closeGoErr", "done"} => cpc' \in {"closeGoErr", "done"}
    /\ (goErrClosed' /\ ~goErrClosed) => cpc = "closeGoErr"
    /\ goErrClosed => goErrClosed'

\* C18: the queue never holds more than 32 commits; the producer closes it
\* at most once and pushes nothing after that; the renderer's send of its
\* result happens once, and goErr is closed only after the producer received
\* that send.
C18_ChannelDiscipline == [](C18_State) /\ [][C18_Step]_vars

\* the queue is full and goErr has been closed after its send was received
C18_Witness == Len(Commits) = ChanCap /\ goErrClosed /\ retAt = "select"

\* ---------------------------------------------------------------- C19

\* C19: the counter is the number of tagged commits walked so far: 0 at the
\* start, one more for a commit with one or several tags, unchanged for an
\* untagged commit, never less; the cutoff ends the walk at a tagged commit
\* only.
C19_CountsTaggedCommits ==
    /\ numTaggedCommits = TaggedUpTo(idx)
    /\ idx = 0 => numTaggedCommits = 0
    /\ (pc = "close" /\ idx < Len(walk)) => TaggedDirect(walk[idx])

\* maximum 1; an untagged commit, a commit with two tags and an untagged
\* commit were all pushed and the counter is 1
C19_Witness ==
    /\ maxRevs = 1
    /\ Len(walk) = 3
    /\ NamesAt(refs, walk[2]) = <<"v1.0", "v2.0">>
    /\ Len(pushed) = 3
    /\ pushed[1].Tags = <<>>
    /\ numTaggedCommits = 1

\* ---------------------------------------------------------------- C20

\* repo.Log returned an error and a nil iterator
LogFailed == retAt \in {"log", "panic152"}

\* C20: when repo.Log fails, writeChangelog returns that error and the
\* renderer is never started.
C20_LogErrorReturned ==
    LogFailed => pc = "returned" /\ ret = ErrLog /\ cpc = "idle"

\* ---------------------------------------------------------------- C21

\* the caller supplied a negative maximum: a minus sign and digits
NegativeSupplied == maxRevsStr # "" /\ Head(maxRevsStr) = "-" /\ Atoi(maxRevsStr).err = nil

\* C21: a negative maximum is kept as it was supplied, with a tag filter
\* too (only 0 becomes 1); the walk is then never stopped at a tagged
\* commit, and a renderer that drains the queue is given the whole walk.
C21_NegativeIsUnlimited ==
    (CutoffSettled /\ NegativeSupplied) =>
        /\ maxRevs < 0
        /\ maxRevs = 0 - DecValue(Tail(maxRevsStr))
        /\ pc = "close" => idx = Len(walk)
        /\ (Returned /\ sawEnd) =>
              /\ Hashes(received) = walk
              /\ \A i \in 1..Len(received) : received[i] = ExpectedCommit(walk[i])

\* a tag filter and the maximum -1: three commits, two of them tagged, were
\* all delivered
C21_Witness ==
    /\ tag # ""
    /\ maxRevsStr = "-1"
    /\ maxRevs = 0 - 1
    /\ Returned
    /\ sawEnd
    /\ numTaggedCommits = 2
    /\ Len(received) = 3

====
